---------------------------- MODULE Spec2Model ----------------------------
(***************************************************************************)
(* Judge-result ETL pipeline of tech_summary_llm_arena:                    *)
(*   scripts/generate_summaries_csv.py   (decoder, flattener, walker,      *)
(*                                        emitter)                         *)
(*   scripts/calculate_average_scores.py (aggregator)                      *)
(* Python strings are TLA+ strings; TLC evaluates Len, SubSeq, Tail and \o *)
(* on them character by character.                                         *)
(***************************************************************************)
EXTENDS Integers, Sequences, FiniteSets, TLC

(***************************************************************************)
(* Bounds of the model.                                                    *)
(***************************************************************************)
\* entries (judgement files and plain root entries) in one directory tree
MaxEntries == 2
\* tokens joined with "_" to build a folder or file name for the decoders
MaxTokens == 4
\* key/value pairs of the top-level mapping given to the flattener
MaxWidth == 2

(***************************************************************************)
(* Python built-ins used by the scripts.                                   *)
(***************************************************************************)
\* Python's None and a present value: an optional is a sequence of length <= 1
None == <<>>

Some(x) == <<x>>

Min(S) == CHOOSE i \in S : \A j \in S : i <= j

Max(S) == CHOOSE i \in S : \A j \in S : i >= j

\* s[i:] of Python, i counted from 0
Drop(s, i) == SubSeq(s, i + 1, Len(s))

\* s.startswith(p)
StartsWith(s, p) == Len(p) <= Len(s) /\ SubSeq(s, 1, Len(p)) = p

\* s.endswith(p)
EndsWith(s, p) == Len(p) <= Len(s) /\ SubSeq(s, Len(s) - Len(p) + 1, Len(s)) = p

\* the 0-based offsets at which p occurs in s
Occurrences(s, p) == {i \in 0..(Len(s) - Len(p)) : StartsWith(Drop(s, i), p)}

\* p in s
Contains(s, p) == Occurrences(s, p) # {}

\* s.replace(old, new): left to right, non-overlapping, old is not empty
RECURSIVE Replace(_, _, _)
Replace(s, old, new) ==
    IF Len(s) < Len(old) THEN s
    ELSE IF StartsWith(s, old) THEN new \o Replace(Drop(s, Len(old)), old, new)
    ELSE SubSeq(s, 1, 1) \o Replace(Drop(s, 1), old, new)

\* s.split(sep): the list of pieces, one more than the occurrences of sep
RECURSIVE Split(_, _)
Split(s, sep) ==
    IF ~Contains(s, sep) THEN <<s>>
    ELSE LET i == Min(Occurrences(s, sep))
         IN  <<SubSeq(s, 1, i)>> \o Split(Drop(s, i + Len(sep)), sep)

\* sep.join(parts)
RECURSIVE Join(_, _)
Join(parts, sep) ==
    IF Len(parts) = 0 THEN ""
    ELSE IF Len(parts) = 1 THEN parts[1]
    ELSE parts[1] \o sep \o Join(Tail(parts), sep)

\* the line break, which "." of a regular expression does not match
NL == "\n"

(***************************************************************************)
(* generate_summaries_csv.py: configuration                                *)
(***************************************************************************)
ROOTS == <<"gemini_judge_results_basic", "gemini_judge_results_full">>

OUTPUT_CSV == "all_judgements_meta.csv"

META_COLS == <<"paper_id", "judge_model", "judge_prompt", "generator_model",
               "summary_style">>

(***************************************************************************)
(* generate_summaries_csv.py: helpers                                      *)
(***************************************************************************)
\* the pattern with a lazy first group, r"(.*?)_judge_results_(.*)": the
\* literal is matched at its first occurrence
parse_judge_folder_drop_first(name) ==
    LET lit == "_judge_results_"
        at == {i \in Occurrences(name, lit) : ~Contains(SubSeq(name, 1, i), NL)}
    IN  IF at = {} THEN <<None, None>>
        ELSE LET i == Min(at)
                 rest == Drop(name, i + Len(lit))
                 stop == IF Contains(rest, NL) THEN Min(Occurrences(rest, NL))
                         ELSE Len(rest)
             IN  <<Some(SubSeq(name, 1, i)), Some(SubSeq(rest, 1, stop))>>

\* re.match(r"(.*)_judge_results_(.*)", name): the first group is greedy, so
\* the literal is matched at its last occurrence that only line-break-free
\* text precedes; the second group runs to the first line break or the end.
parse_judge_folder(name) ==
    LET lit == "_judge_results_"
        at == {i \in Occurrences(name, lit) : ~Contains(SubSeq(name, 1, i), NL)}
    IN  IF at = {} THEN <<None, None>>
        ELSE LET i == Max(at)
                 rest == Drop(name, i + Len(lit))
                 stop == IF Contains(rest, NL) THEN Min(Occurrences(rest, NL))
                         ELSE Len(rest)
             IN  <<Some(SubSeq(name, 1, i)), Some(SubSeq(rest, 1, stop))>>

\* a decoder that gives up only the style of a name with a single token
parse_results_folder_partial(name) ==
    LET parts == Split(Replace(name, "results_", ""), "_")
    IN  IF Len(parts) < 2 THEN <<Some(parts[1]), None>>
        ELSE <<Some(parts[1]), Some(Join(Tail(parts), "_"))>>

parse_results_folder(name) ==
    LET parts == Split(Replace(name, "results_", ""), "_")
    IN  IF Len(parts) < 2 THEN <<None, None>>
        ELSE <<Some(parts[1]), Some(Join(Tail(parts), "_"))>>


\* Parsed JSON values, tagged with their Python type.  A mapping keeps the
\* order of its keys (dict): a sequence of <<key, value>> with distinct keys.
Num(n) == [t |-> "int", v |-> n]

Str(x) == [t |-> "str", v |-> x]

Bool(b) == [t |-> "bool", v |-> b]

Null == [t |-> "null", v |-> 0]

List(xs) == [t |-> "list", v |-> xs]

Dict(kvs) == [t |-> "dict", v |-> kvs]

\* the empty Python dict, as a function with no key
EmptyDict == [k \in {} |-> Null]

\* items.update(other): the keys of other win
Update(items, other) == other @@ items

\* flatten_json(d, parent_key="", sep="."): d is the key/value sequence of a
\* mapping; step[i] is `items` after the loop has handled the first i pairs.
\* "if parent_key" is false for the empty string.
RECURSIVE flatten_json(_, _, _)
flatten_json(d, parent_key, sep) ==
    LET new_key(k) == IF parent_key # "" THEN parent_key \o sep \o k ELSE k
        step[i \in 0..Len(d)] ==
            IF i = 0 THEN EmptyDict
            ELSE LET k == d[i][1]
                     v == d[i][2]
                 IN  IF v.t = "dict"
                     THEN Update(step[i - 1], flatten_json(v.v, new_key(k), sep))
                     ELSE Update(step[i - 1], new_key(k) :> v)
    IN  step[Len(d)]

\* pathlib's Path.stem: the name without its last suffix; a name whose only
\* dot leads it, or that ends with a dot, has no suffix
Stem(name) ==
    LET dots == Occurrences(name, ".")
    IN  IF dots = {} THEN name
        ELSE LET i == Max(dots)
             IN  IF 0 < i /\ i < Len(name) - 1 THEN SubSeq(name, 1, i) ELSE name

\* line 84: json_file.stem.replace("_judge", "")
paper_id_of(file_name) == Replace(Stem(file_name), "_judge", "")

\* Path.glob("*.json") on the names of one directory
GlobJson(names) == {n \in names : EndsWith(n, ".json")}

\* the selection with its filter lost: every flattened key is kept
ScoreKeysOf_every_key(flat) == DOMAIN flat

\* lines 92-95: the keys of flat kept as score fields
ScoreKeysOf(flat) == {k \in DOMAIN flat : EndsWith(k, ".score")}

\* the value a row holds for a decoded name part: the string, or None
MetaValue(part) == IF part = None THEN Null ELSE Str(part[1])

\* lines 83-95: the row of one judgement file
BuildRow(file_name, judge, gen, flat) ==
    LET meta == ("paper_id" :> Str(paper_id_of(file_name))) @@
                ("judge_model" :> MetaValue(judge[1])) @@
                ("judge_prompt" :> MetaValue(judge[2])) @@
                ("generator_model" :> MetaValue(gen[1])) @@
                ("summary_style" :> MetaValue(gen[2]))
    IN  Update(meta, [k \in ScoreKeysOf(flat) |-> flat[k]])

\* "score_keys = the keys of this file": the keys seen before are dropped
AddScoreKeys_replace(keys, flat) == ScoreKeysOf(flat)

\* line 95: score_keys.add(k) for every key kept
AddScoreKeys(keys, flat) == keys \cup ScoreKeysOf(flat)

\* an append that keeps one row per combination of metadata: the first seen
AppendRow_first_per_paper(rs, row) ==
    IF \E i \in DOMAIN rs : \A n \in DOMAIN META_COLS : rs[i][META_COLS[n]] = row[META_COLS[n]]
    THEN rs
    ELSE Append(rs, row)

\* "rows = [row]" in place of the append: the earlier rows are lost
AppendRow_overwrite(rs, row) == <<row>>

\* line 97: rows.append(row)
AppendRow(rs, row) == Append(rs, row)

\* Python orders strings by code point; the characters that occur in keys
CodeOrder == "\n.0123456789_abcdefghijklmnopqrstuvwxyz"

Code(c) == Min(Occurrences(CodeOrder, c))

RECURSIVE StrLess(_, _)
StrLess(a, b) ==
    IF Len(b) = 0 THEN FALSE
    ELSE IF Len(a) = 0 THEN TRUE
    ELSE IF SubSeq(a, 1, 1) = SubSeq(b, 1, 1) THEN StrLess(Drop(a, 1), Drop(b, 1))
    ELSE Code(SubSeq(a, 1, 1)) < Code(SubSeq(b, 1, 1))

\* sorted(S) for a set of strings
RECURSIVE Sorted(_)
Sorted(S) ==
    IF S = {} THEN <<>>
    ELSE LET m == CHOOSE x \in S : \A y \in S \ {x} : StrLess(x, y)
         IN  <<m>> \o Sorted(S \ {m})

(***************************************************************************)
(* The directory tree the walker reads.                                    *)
(***************************************************************************)
\* a file whose text json.load rejects
Malformed == [t |-> "malformed", v |-> 0]

\* the record of the specification's end-to-end scenario
Doc42 == Dict(<< <<"hallucination", Dict(<< <<"score", Num(8)>> >>)>>,
                 <<"total_score", Num(42)>> >>)

Doc40 == Dict(<< <<"hallucination", Dict(<< <<"score", Num(0)>> >>)>>,
                 <<"factual_accuracy", Dict(<< <<"score", Num(7)>>,
                                               <<"reasoning", Str("ok")>> >>)>>,
                 <<"total_score", Num(40)>> >>)

Doc50 == Dict(<< <<"factual_accuracy", Dict(<< <<"score", Str("high")>> >>)>>,
                 <<"total_score", Num(50)>> >>)

Contents == {Doc42, Doc40, Doc50, Malformed}

\* names of directories inside a root: two that follow the naming pattern,
\* one that does not and still decodes, one that does not decode
DirNames == {"results_anthropic_short", "results_openai_long_form",
             "summaries_full"}

UndecodableDirNames == {"plots"}

\* names of the judgement files of a directory (*.json), and of the raw
\* responses the judges leave beside them (*.txt)
JsonNames == {"paper1_judge.json", "ai_bias_judge.json",
              "ai_judge_bias_judge.json"}

TxtNames == {"paper1_judge.txt"}

\* names of entries of a root that are plain files
PlainNames == {"results_notes_old"}

RootIds == 1..Len(ROOTS)

\* One entry of the tree: a file `file` with parsed content `data` in the
\* directory `dir` of root `root`, or (is_dir = FALSE) a plain file `dir`
\* lying in the root itself.  The first root takes every name; the other
\* roots take one directory name and one file name.
FileEntries ==
    [root : {1}, dir : DirNames, is_dir : {TRUE}, file : JsonNames,
     data : Contents]
    \cup
    [root : {1}, dir : DirNames, is_dir : {TRUE}, file : TxtNames,
     data : {Malformed}]
    \cup
    [root : {1}, dir : UndecodableDirNames, is_dir : {TRUE},
     file : {"paper1_judge.json"}, data : {Doc42}]
    \cup
    [root : RootIds \ {1}, dir : {"results_anthropic_short"}, is_dir : {TRUE},
     file : {"paper1_judge.json"}, data : Contents]

PlainEntries ==
    [root : {1}, dir : PlainNames, is_dir : {FALSE}, file : {""}, data : {Null}]

Place(e) == <<e.root, e.dir, e.file>>

\* the sets of at most n entries of U
RECURSIVE UpTo(_, _)
UpTo(U, n) ==
    IF n = 0 THEN {{}}
    ELSE LET less == UpTo(U, n - 1)
         IN  less \cup {S \cup {e} : S \in less, e \in U}

\* a tree: no two entries at the same place
Trees ==
    {T \in UpTo(FileEntries \cup PlainEntries, MaxEntries) :
        \A e1, e2 \in T : Place(e1) = Place(e2) => e1 = e2}

(***************************************************************************)
(* State.                                                                  *)
(***************************************************************************)
VARIABLES
    present,      \* the roots of ROOTS that exist (judge_dir.exists())
    tree,         \* the entries below the roots that exist
    pc,           \* where the run is
    ri,           \* index into ROOTS of the judge_dir of the outer loop
    judge,        \* <<judge_model, judge_prompt>> of the current root
    to_iter,      \* names judge_dir.iterdir() has still to yield
    results_dir,  \* name of the directory of the inner loop
    gen,          \* <<generator_model, summary_style>> of results_dir
    to_glob,      \* names results_dir.glob("*.json") has still to yield
    rows,         \* rows (line 57)
    score_keys,   \* score_keys (line 58)
    origin,       \* history: origin[i] is the entry rows[i] was built from
    out_csv,      \* OUTPUT_CSV: None, or Some(table written)
    average_scores, \* data_analysis/average_scores.csv: None, or Some(table)
    stdout,       \* the lines generate_summaries_csv.py has printed
    run,          \* which run of generate_summaries_csv.py this is: 1 or 2
    first_rows,   \* history: rows at the end of the first run
    first_csv,    \* history: OUTPUT_CSV at the end of the first run
    variant,      \* the judge script run: "anthropic", "openai" or "llama3"
    summary_folder, \* names of the files of summary_folder
    input_docs,   \* names of the files of input_docs_folder
    out_files,    \* output_folder: file name -> content
    jpc,          \* where judge_all_summaries is
    jrun,         \* which run of judge_all_summaries this is: 1 or 2
    summary_files, \* files of summary_files the loop has still to take
    results,      \* results: PDF name -> judge result or error entry
    judge_calls,  \* history: the summaries sent to the judge in this run
    handled,      \* history: None, or Some(what the last loop turn did)
    first_out,    \* history: out_files at the end of the first run
    fn,           \* decoder harness: the helper applied
    arg,          \* decoder harness: its argument
    res           \* decoder harness: None, or Some(result)

walk_vars == <<present, tree, pc, ri, judge, to_iter, results_dir, gen,
               to_glob, rows, score_keys, origin, out_csv, average_scores,
               stdout>>

fn_vars == <<fn, arg, res>>

rerun_vars == <<run, first_rows, first_csv>>

judge_vars == <<variant, summary_folder, input_docs, out_files, jpc, jrun,
                summary_files, results, judge_calls, handled, first_out>>

vars == <<walk_vars, fn_vars, rerun_vars, judge_vars>>

(***************************************************************************)
(* generate_summaries_csv.py: the emitter (csv.DictWriter)                 *)
(***************************************************************************)
Digit(d) == SubSeq("0123456789", d + 1, d + 1)

\* str(n) for an int n >= 0
RECURSIVE IntToStr(_)
IntToStr(n) == IF n < 10 THEN Digit(n) ELSE IntToStr(n \div 10) \o Digit(n % 10)

\* str(xs) for a list of ints
RECURSIVE ListBody(_)
ListBody(xs) ==
    IF Len(xs) = 0 THEN ""
    ELSE IF Len(xs) = 1 THEN IntToStr(xs[1])
    ELSE IntToStr(xs[1]) \o ", " \o ListBody(Tail(xs))

\* the text csv.writer puts in a field: None is written as the empty
\* string, a str as it is, anything else through str()
CellText(x) ==
    CASE x.t = "str" -> x.v
      [] x.t = "int" -> IntToStr(x.v)
      [] x.t = "bool" -> (IF x.v THEN "True" ELSE "False")
      [] x.t = "null" -> ""
      [] x.t = "list" -> "[" \o ListBody(x.v) \o "]"

\* a writer built with restval = "0": a missing key is written as a zero
CsvLine_restval_zero(row, fieldnames) ==
    [i \in 1..Len(fieldnames) |->
        IF fieldnames[i] \in DOMAIN row THEN CellText(row[fieldnames[i]]) ELSE "0"]

\* DictWriter: rowdict.get(key, restval) with restval = ""
CsvLine(row, fieldnames) ==
    [i \in 1..Len(fieldnames) |->
        IF fieldnames[i] \in DOMAIN row THEN CellText(row[fieldnames[i]]) ELSE ""]

\* the score columns in descending order, after the metadata columns
Fieldnames_descending(keys) ==
    LET up == Sorted(keys)
    IN  META_COLS \o [i \in 1..Len(up) |-> up[Len(up) + 1 - i]]

\* line 103
Fieldnames(keys) == META_COLS \o Sorted(keys)

\* lines 105-108: the header once, then one line per row, in the order of rows
CsvTable(rs, keys) ==
    [header |-> Fieldnames(keys),
     lines |-> [i \in 1..Len(rs) |-> CsvLine(rs[i], Fieldnames(keys))]]

(***************************************************************************)
(* generate_summaries_csv.py: the walk (lines 57-97) and the write         *)
(***************************************************************************)
\* the entries of root r: what judge_dir.iterdir() yields, in any order
EntriesOf(r) == {e.dir : e \in {x \in tree : x.root = r}}

IsDir(r, name) == \E e \in tree : e.root = r /\ e.dir = name /\ e.is_dir

FilesOf(r, name) == {e \in tree : e.root = r /\ e.dir = name /\ e.is_dir}

\* line 62
SkippingMessage(judge_dir) == "Skipping missing folder: " \o judge_dir

\* line 110
WroteMessage(n) == " Wrote " \o IntToStr(n) \o " rows → " \o OUTPUT_CSV

\* a head of the outer loop that skips a missing root without a word
ForJudgeDir_silent_skip ==
    /\ pc = "walk_roots"
    /\ ri <= Len(ROOTS)
    /\ IF ri \notin present
       THEN /\ ri' = ri + 1
            /\ UNCHANGED <<pc, judge, to_iter, stdout>>
       ELSE LET decoded == parse_judge_folder(ROOTS[ri])
            IN  IF decoded[1] = None
                THEN /\ ri' = ri + 1
                     /\ UNCHANGED <<pc, judge, to_iter, stdout>>
                ELSE /\ judge' = decoded
                     /\ to_iter' = EntriesOf(ri)
                     /\ pc' = "walk_dirs"
                     /\ ri' = ri
                     /\ UNCHANGED stdout
    /\ UNCHANGED <<present, tree, results_dir, gen, to_glob, rows, score_keys,
                   origin, out_csv, average_scores, fn_vars, rerun_vars, judge_vars>>

\* a head of the outer loop that takes a missing root for fatal: the run
\* ends there
ForJudgeDir_missing_fatal ==
    /\ pc = "walk_roots"
    /\ ri <= Len(ROOTS)
    /\ IF ri \notin present
       THEN /\ stdout' = Append(stdout, SkippingMessage(ROOTS[ri]))
            /\ pc' = "missing_root"
            /\ UNCHANGED <<ri, judge, to_iter>>
       ELSE LET decoded == parse_judge_folder(ROOTS[ri])
            IN  IF decoded[1] = None
                THEN /\ ri' = ri + 1
                     /\ UNCHANGED <<pc, judge, to_iter, stdout>>
                ELSE /\ judge' = decoded
                     /\ to_iter' = EntriesOf(ri)
                     /\ pc' = "walk_dirs"
                     /\ ri' = ri
                     /\ UNCHANGED stdout
    /\ UNCHANGED <<present, tree, results_dir, gen, to_glob, rows, score_keys,
                   origin, out_csv, average_scores, fn_vars, rerun_vars, judge_vars>>

\* lines 60-67: the head of the outer loop
ForJudgeDir ==
    /\ pc = "walk_roots"
    /\ ri <= Len(ROOTS)
    /\ IF ri \notin present
       THEN /\ stdout' = Append(stdout, SkippingMessage(ROOTS[ri]))
            /\ ri' = ri + 1
            /\ UNCHANGED <<pc, judge, to_iter>>
       ELSE LET decoded == parse_judge_folder(ROOTS[ri])
            IN  IF decoded[1] = None
                THEN /\ ri' = ri + 1
                     /\ UNCHANGED <<pc, judge, to_iter, stdout>>
                ELSE /\ judge' = decoded
                     /\ to_iter' = EntriesOf(ri)
                     /\ pc' = "walk_dirs"
                     /\ ri' = ri
                     /\ UNCHANGED stdout
    /\ UNCHANGED <<present, tree, results_dir, gen, to_glob, rows, score_keys,
                   origin, out_csv, average_scores, fn_vars, rerun_vars, judge_vars>>

\* lines 69-75: one turn of the middle loop, on any entry not yet yielded
ForResultsDir ==
    /\ pc = "walk_dirs"
    /\ \E name \in to_iter :
        /\ to_iter' = to_iter \ {name}
        /\ IF ~IsDir(ri, name)
           THEN UNCHANGED <<pc, results_dir, gen, to_glob>>
           ELSE LET decoded == parse_results_folder(name)
                    found == GlobJson({e.file : e \in FilesOf(ri, name)})
                IN  IF decoded[1] = None
                    THEN UNCHANGED <<pc, results_dir, gen, to_glob>>
                    ELSE /\ gen' = decoded
                         /\ results_dir' = name
                         /\ to_glob' = found
                         /\ pc' = IF found = {} THEN "walk_dirs" ELSE "walk_files"
    /\ UNCHANGED <<present, tree, ri, judge, rows, score_keys, origin, out_csv,
                   average_scores, stdout, fn_vars, rerun_vars, judge_vars>>

\* the middle loop is exhausted: back to the outer loop
EndJudgeDir ==
    /\ pc = "walk_dirs"
    /\ to_iter = {}
    /\ ri' = ri + 1
    /\ pc' = "walk_roots"
    /\ UNCHANGED <<present, tree, judge, to_iter, results_dir, gen, to_glob,
                   rows, score_keys, origin, out_csv, average_scores, stdout, fn_vars, rerun_vars, judge_vars>>

\* an inner loop that catches the error of a file and goes on to the next
ForJsonFile_skip_unparsable ==
    /\ pc = "walk_files"
    /\ \E name \in to_glob :
        LET e == CHOOSE x \in FilesOf(ri, results_dir) : x.file = name
        IN  /\ to_glob' = to_glob \ {name}
            /\ pc' = IF to_glob' = {} THEN "walk_dirs" ELSE "walk_files"
            /\ IF e.data.t # "dict"
               THEN UNCHANGED <<rows, score_keys, origin>>
               ELSE LET flat == flatten_json(e.data.v, "", ".")
                        row == BuildRow(name, judge, gen, flat)
                    IN  /\ rows' = AppendRow(rows, row)
                        /\ score_keys' = AddScoreKeys(score_keys, flat)
                        /\ origin' = Append(origin, e)
    /\ UNCHANGED <<present, tree, ri, judge, to_iter, results_dir, gen, out_csv,
                   average_scores, stdout, fn_vars, rerun_vars, judge_vars>>

\* lines 77-97: one turn of the inner loop, on any file not yet yielded.
\* json.load raises on a malformed file and flatten_json on a document that
\* is no mapping; nothing catches either, the script ends there.
ForJsonFile ==
    /\ pc = "walk_files"
    /\ \E name \in to_glob :
        LET e == CHOOSE x \in FilesOf(ri, results_dir) : x.file = name
        IN  IF e.data.t # "dict"
            THEN /\ pc' = "json_error"
                 /\ UNCHANGED <<to_glob, rows, score_keys, origin>>
            ELSE LET flat == flatten_json(e.data.v, "", ".")
                     row == BuildRow(name, judge, gen, flat)
                 IN  /\ rows' = AppendRow(rows, row)
                     /\ score_keys' = AddScoreKeys(score_keys, flat)
                     /\ origin' = Append(origin, e)
                     /\ to_glob' = to_glob \ {name}
                     /\ pc' = IF to_glob' = {} THEN "walk_dirs" ELSE "walk_files"
    /\ UNCHANGED <<present, tree, ri, judge, to_iter, results_dir, gen, out_csv,
                   average_scores, stdout, fn_vars, rerun_vars, judge_vars>>

\* a write without the check for no rows: the header alone is written
WriteCsv_header_only ==
    /\ pc = "walk_roots"
    /\ ri > Len(ROOTS)
    /\ out_csv' = Some(CsvTable(rows, score_keys))
    /\ stdout' = Append(stdout, WroteMessage(Len(rows)))
    /\ pc' = "written"
    /\ UNCHANGED <<present, tree, ri, judge, to_iter, results_dir, gen, to_glob,
                   rows, score_keys, origin, average_scores, fn_vars, rerun_vars, judge_vars>>

\* lines 99-110
WriteCsv ==
    /\ pc = "walk_roots"
    /\ ri > Len(ROOTS)
    /\ IF rows = <<>>
       THEN /\ pc' = "no_rows"
            /\ UNCHANGED <<out_csv, stdout>>
       ELSE /\ out_csv' = Some(CsvTable(rows, score_keys))
            /\ stdout' = Append(stdout, WroteMessage(Len(rows)))
            /\ pc' = "written"
    /\ UNCHANGED <<present, tree, ri, judge, to_iter, results_dir, gen, to_glob,
                   rows, score_keys, origin, average_scores, fn_vars, rerun_vars, judge_vars>>

(***************************************************************************)
(* calculate_average_scores.py                                             *)
(***************************************************************************)
\* lines 16-24
score_columns == <<"completeness_and_relevance.score", "factual_accuracy.score",
                   "hallucination.score", "prompt_following.score",
                   "research_question.score",
                   "terminology_explanation_and_coherence.score", "total_score">>

\* line 27
group_columns == <<"judge_model", "judge_prompt", "generator_model",
                   "summary_style">>

Range(f) == {f[i] : i \in DOMAIN f}

\* pandas.read_csv: the field texts read as missing (NaN)
NAValues == {"", "#N/A", "#N/A N/A", "#NA", "-1.#IND", "-1.#QNAN", "-NaN",
             "-nan", "1.#IND", "1.#QNAN", "<NA>", "N/A", "NA", "NULL", "NaN",
             "None", "n/a", "nan", "null"}

IsDigits(x) ==
    /\ Len(x) > 0
    /\ \A i \in 1..Len(x) : Contains("0123456789", SubSeq(x, i, i))

\* int(x) for a string of digits
RECURSIVE StrToInt(_)
StrToInt(x) ==
    IF Len(x) = 0 THEN 0
    ELSE 10 * StrToInt(SubSeq(x, 1, Len(x) - 1))
         + Min(Occurrences("0123456789", SubSeq(x, Len(x), Len(x))))

\* the position of column c in a header
ColumnIndex(header, c) == Min({i \in 1..Len(header) : header[i] = c})

\* the field of line `line` in column c
Cell(df, line, c) == line[ColumnIndex(df.header, c)]

\* a column read_csv gives a numeric dtype: every field a number or missing
IsNumericColumn(df, c) ==
    \A i \in 1..Len(df.lines) :
        LET x == Cell(df, df.lines[i], c) IN x \in NAValues \/ IsDigits(x)

RECURSIVE SumSeq(_)
SumSeq(xs) == IF Len(xs) = 0 THEN 0 ELSE xs[1] + SumSeq(Tail(xs))

\* mean().round(2) of a non-empty list of ints, in hundredths: the nearest
\* hundredth, a tie going to the even one
MeanRounded(xs) ==
    LET num == 100 * SumSeq(xs)
        q == num \div Len(xs)
        r == num % Len(xs)
    IN  IF 2 * r < Len(xs) THEN q
        ELSE IF 2 * r > Len(xs) THEN q + 1
        ELSE IF q % 2 = 0 THEN q ELSE q + 1

\* the key of a line: its fields in the group columns
GroupKey(df, line) == [i \in 1..Len(group_columns) |-> Cell(df, line, group_columns[i])]

\* groupby drops the lines with a missing field in a group column
GroupKeys(df) ==
    {GroupKey(df, df.lines[i]) : i \in
        {j \in 1..Len(df.lines) :
            \A g \in 1..Len(group_columns) :
                GroupKey(df, df.lines[j])[g] \notin NAValues}}

\* the present values of column c in the lines of one group, in line order
RECURSIVE PresentValues(_, _, _, _)
PresentValues(df, key, c, n) ==
    IF n = 0 THEN <<>>
    ELSE LET line == df.lines[n]
             x == Cell(df, line, c)
             before == PresentValues(df, key, c, n - 1)
         IN  IF GroupKey(df, line) = key /\ x \notin NAValues
             THEN Append(before, StrToInt(x))
             ELSE before

\* tuples of strings compared component by component
RECURSIVE TupleLess(_, _)
TupleLess(a, b) ==
    IF Len(a) = 0 \/ Len(b) = 0 THEN Len(a) < Len(b)
    ELSE IF a[1] = b[1] THEN TupleLess(Tail(a), Tail(b))
    ELSE StrLess(a[1], b[1])

RECURSIVE SortedTuples(_)
SortedTuples(S) ==
    IF S = {} THEN <<>>
    ELSE LET m == CHOOSE x \in S : \A y \in S \ {x} : TupleLess(x, y)
         IN  <<m>> \o SortedTuples(S \ {m})

\* lines 30-36: one line per group, ordered by the group key; a mean is None
\* (NaN) when the group has no present value in the column
AverageTable(df) ==
    LET keys == SortedTuples(GroupKeys(df))
    IN  [header |-> group_columns \o score_columns,
         lines |-> [i \in 1..Len(keys) |->
            [key |-> keys[i],
             mean |-> [c \in Range(score_columns) |->
                LET xs == PresentValues(df, keys[i], c, Len(df.lines))
                IN  IF Len(xs) = 0 THEN None ELSE Some(MeanRounded(xs))]]]]

\* lines 13-39, run on the table generate_summaries_csv.py wrote.  Selecting
\* a column the table lacks raises KeyError; the mean of a column of text
\* raises TypeError; neither is caught and no output is written.
Aggregate ==
    /\ pc = "written"
    /\ LET df == out_csv[1]
       IN  IF ~(Range(group_columns) \cup Range(score_columns) \subseteq Range(df.header))
           THEN /\ pc' = "key_error"
                /\ UNCHANGED average_scores
           ELSE IF \E c \in Range(score_columns) : ~IsNumericColumn(df, c)
           THEN /\ pc' = "type_error"
                /\ UNCHANGED average_scores
           ELSE /\ average_scores' = Some(AverageTable(df))
                /\ pc' = "averaged"
    /\ UNCHANGED <<present, tree, ri, judge, to_iter, results_dir, gen, to_glob,
                   rows, score_keys, origin, out_csv, stdout, fn_vars, rerun_vars, judge_vars>>

\* no judge script is run
JudgeIdle ==
    /\ variant = "none"
    /\ summary_folder = {}
    /\ input_docs = {}
    /\ out_files = <<>>
    /\ jpc = "idle"
    /\ jrun = 1
    /\ summary_files = {}
    /\ results = <<>>
    /\ judge_calls = {}
    /\ handled = None
    /\ first_out = <<>>

(***************************************************************************)
(* The pipeline: one run of the walker over any tree, then the aggregator. *)
(***************************************************************************)
Init ==
    /\ present \in SUBSET RootIds
    /\ tree \in {T \in Trees : \A e \in T : e.root \in present}
    /\ pc = "walk_roots"
    /\ ri = 1
    /\ judge = <<None, None>>
    /\ to_iter = {}
    /\ results_dir = ""
    /\ gen = <<None, None>>
    /\ to_glob = {}
    /\ rows = <<>>
    /\ score_keys = {}
    /\ origin = <<>>
    /\ out_csv = None
    /\ average_scores = None
    /\ stdout = <<>>
    /\ run = 1
    /\ first_rows = <<>>
    /\ first_csv = None
    /\ JudgeIdle
    /\ fn = "none"
    /\ arg = ""
    /\ res = None

Next ==
    \/ ForJudgeDir
    \/ ForResultsDir
    \/ EndJudgeDir
    \/ ForJsonFile
    \/ WriteCsv
    \/ Aggregate

Spec == Init /\ [][Next]_vars

(***************************************************************************)
(* generate_summaries_csv.py run a second time over the same tree.         *)
(***************************************************************************)
\* the script has ended after a complete walk: with the table written, or
\* with the no-data error
ScriptEnded == pc \in {"written", "no_rows"}

\* the script is started again: a new process with lines 57-58 executed; the
\* tree and the file of the first run are as the first run left them
Rerun ==
    /\ run = 1
    /\ ScriptEnded
    /\ run' = 2
    /\ first_rows' = rows
    /\ first_csv' = out_csv
    /\ pc' = "walk_roots"
    /\ ri' = 1
    /\ judge' = <<None, None>>
    /\ to_iter' = {}
    /\ results_dir' = ""
    /\ gen' = <<None, None>>
    /\ to_glob' = {}
    /\ rows' = <<>>
    /\ score_keys' = {}
    /\ origin' = <<>>
    /\ stdout' = <<>>
    /\ UNCHANGED <<present, tree, out_csv, average_scores, fn_vars, judge_vars>>

NextTwice ==
    \/ ForJudgeDir
    \/ ForResultsDir
    \/ EndJudgeDir
    \/ ForJsonFile
    \/ WriteCsv
    \/ Rerun

\* the trees of the two runs: every *.json file parses (the first run comes
\* to its end), with two documents and two subdirectory names
InitTwice ==
    /\ Init
    /\ \A e \in tree :
           (e.is_dir /\ EndsWith(e.file, ".json")) =>
               /\ e.data \in {Doc42, Doc50}
               /\ e.dir \in {"results_anthropic_short", "results_openai_long_form"}

SpecTwice == InitTwice /\ [][NextTwice]_vars

(***************************************************************************)
(* judge_anthropic.py, judge_openai.py, judge_llama3.py:                   *)
(* judge_single_summary (the handling of the response) and                 *)
(* judge_all_summaries                                                     *)
(***************************************************************************)
\* str.strip(): the blanks and line breaks at both ends removed
RECURSIVE Strip(_)
Strip(x) ==
    IF Len(x) = 0 THEN x
    ELSE IF SubSeq(x, 1, 1) \in {" ", NL} THEN Strip(Drop(x, 1))
    ELSE IF SubSeq(x, Len(x), Len(x)) \in {" ", NL} THEN Strip(SubSeq(x, 1, Len(x) - 1))
    ELSE x

\* judge_anthropic.py lines 84-90: the text from the first "{" to the last
\* "}", when the stripped response has both
CutToBraces(response_text) ==
    LET text == Strip(response_text)
        opens == Occurrences(text, "{")
        closes == Occurrences(text, "}")
    IN  IF opens = {} \/ closes = {} THEN text
        ELSE IF Max(closes) < Min(opens) THEN ""
        ELSE SubSeq(text, Min(opens) + 1, Max(closes) + 1)

\* the responses of the judge model: a JSON object, the same inside prose, a
\* refusal, an object with unquoted keys inside prose, a bare JSON number
JsonObjectText == "{\"total_score\": 42}"

Responses ==
    {JsonObjectText,
     "Here is my evaluation:" \o NL \o JsonObjectText \o NL,
     "I cannot evaluate this summary.",
     "Scores: {total_score: 42} as requested",
     "42"}

\* json.loads on the texts that occur: the value, or None for JSONDecodeError
JsonLoads(text) ==
    IF text = JsonObjectText THEN Some(Dict(<< <<"total_score", Num(42)>> >>))
    ELSE IF IsDigits(text) THEN Some(Num(StrToInt(text)))
    ELSE None

\* judge_anthropic.py lines 81-98: the result of judge_single_summary for a
\* response of the model
ResultOf(response_text) ==
    LET text == CutToBraces(response_text)
        loaded == JsonLoads(text)
    IN  IF loaded # None THEN loaded[1]
        ELSE Dict(<< <<"_save_as_text", Bool(TRUE)>>, <<"raw_response", Str(text)>> >>)

\* s.rsplit("_", 1)[0]
RSplitHead(x) ==
    IF ~Contains(x, "_") THEN x ELSE SubSeq(x, 1, Max(Occurrences(x, "_")))

\* the stem the names of the PDF and of the output files are built on:
\* rsplit("_", 1)[0] (judge_anthropic.py line 171, judge_openai.py line 163),
\* replace("_summary.txt", ...) (judge_llama3.py line 155)
OutputStem(v, summary_filename) ==
    IF v = "llama3" THEN Replace(summary_filename, "_summary.txt", "")
    ELSE RSplitHead(summary_filename)

\* judge_llama3.py line 155 replaces inside the name: what it gives is the
\* stem followed by ".pdf" only when the name ends with "_summary.txt"
OriginalPdfName(v, summary_filename) ==
    IF v = "llama3" THEN Replace(summary_filename, "_summary.txt", ".pdf")
    ELSE RSplitHead(summary_filename) \o ".pdf"

JudgeJsonName(v, summary_filename) ==
    IF v = "llama3" THEN Replace(summary_filename, "_summary.txt", "_judge.json")
    ELSE RSplitHead(summary_filename) \o "_judge.json"

JudgeTxtName(v, summary_filename) ==
    IF v = "llama3" THEN Replace(summary_filename, "_summary.txt", "_judge.txt")
    ELSE RSplitHead(summary_filename) \o "_judge.txt"

\* the glob of the summary folder: "*.txt" (judge_anthropic.py line 157,
\* judge_openai.py line 153), "*_summary.txt" (judge_llama3.py line 145)
GlobSummaries(v, names) ==
    IF v = "llama3" THEN {n \in names : EndsWith(n, "_summary.txt")}
    ELSE {n \in names : EndsWith(n, ".txt")}

\* a check that looks for the .json output only
AlreadyProcessed_json_only(v, summary_filename) ==
    /\ v = "anthropic"
    /\ JudgeJsonName(v, summary_filename) \in DOMAIN out_files

\* judge_anthropic.py lines 174-179: only that script looks for the output
\* of an earlier run
AlreadyProcessed(v, summary_filename) ==
    /\ v = "anthropic"
    /\ \/ JudgeJsonName(v, summary_filename) \in DOMAIN out_files
       \/ JudgeTxtName(v, summary_filename) \in DOMAIN out_files

\* dict.get(key, default) on a result that is a dict
DictGet(d, key, default) ==
    IF \E i \in DOMAIN d.v : d.v[i][1] = key
    THEN d.v[CHOOSE i \in DOMAIN d.v : d.v[i][1] = key][2]
    ELSE default

ErrorEntry == Dict(<< <<"error", Str("error")>> >>)

\* what a file holds: the text written, or the value dumped as JSON
TextFile(x) == [kind |-> "text", v |-> x]

JsonFile(value) == [kind |-> "json", v |-> value]

\* judge_anthropic.py lines 136-165 (judge_openai.py lines 132-158,
\* judge_llama3.py lines 123-150), with the two folders and the prompt in
\* place and output_folder given: the list of summary files is made
JudgeBegin ==
    /\ jpc = "start"
    /\ summary_files' = GlobSummaries(variant, summary_folder)
    /\ results' = <<>>
    /\ jpc' = IF summary_files' = {} THEN "returned" ELSE "loop"
    /\ UNCHANGED <<variant, summary_folder, input_docs, out_files, jrun,
                   judge_calls, handled, first_out, walk_vars, fn_vars, rerun_vars>>

\* what one loop turn on summary_filename does when the judge answers with
\* response (None: the call raises): judge_anthropic.py lines 167-222,
\* judge_openai.py lines 160-201, judge_llama3.py lines 152-191
TurnOn(summary_filename, response) ==
    LET pdf == OriginalPdfName(variant, summary_filename)
        turn(outcome, wrote) ==
            [summary |-> summary_filename, response |-> response,
             outcome |-> outcome, wrote |-> wrote]
    IN  IF AlreadyProcessed(variant, summary_filename)
        THEN [turn |-> turn("skipped", <<>>), sent |-> FALSE, entry |-> None]
        ELSE IF pdf \notin input_docs
        THEN [turn |-> turn("pdf_missing", <<>>), sent |-> FALSE,
              entry |-> Some(ErrorEntry)]
        ELSE IF response = None
        THEN [turn |-> turn("raised", <<>>), sent |-> TRUE, entry |-> Some(ErrorEntry)]
        ELSE LET judge_result == ResultOf(response[1])
             IN  IF judge_result.t # "dict"
                 THEN [turn |-> turn("raised", <<>>), sent |-> TRUE,
                       entry |-> Some(ErrorEntry)]
                 ELSE IF DictGet(judge_result, "_save_as_text", Bool(FALSE)) = Bool(TRUE)
                 THEN [turn |-> turn("text",
                                     JudgeTxtName(variant, summary_filename) :>
                                         TextFile(DictGet(judge_result, "raw_response",
                                                          Null).v)),
                       sent |-> TRUE, entry |-> Some(judge_result)]
                 ELSE [turn |-> turn("json",
                                     JudgeJsonName(variant, summary_filename) :>
                                         JsonFile(judge_result)),
                       sent |-> TRUE, entry |-> Some(judge_result)]

\* one turn of the loop, on any file of the list not yet taken (the order of
\* glob is the filesystem's); after the last one the function returns
JudgeOne ==
    /\ jpc = "loop"
    /\ \E summary_filename \in summary_files :
        \E response \in {None} \cup {Some(r) : r \in Responses} :
            LET t == TurnOn(summary_filename, response)
            IN  /\ summary_files' = summary_files \ {summary_filename}
                /\ out_files' = t.turn.wrote @@ out_files
                /\ results' = IF t.entry = None THEN results
                              ELSE (OriginalPdfName(variant, summary_filename) :>
                                        t.entry[1]) @@ results
                /\ judge_calls' = IF t.sent THEN judge_calls \cup {summary_filename}
                                  ELSE judge_calls
                /\ handled' = Some(t.turn)
                /\ jpc' = IF summary_files' = {} THEN "returned" ELSE "loop"
    /\ UNCHANGED <<variant, summary_folder, input_docs, jrun, first_out,
                   walk_vars, fn_vars, rerun_vars>>

\* the script is run again over the same folders
JudgeRerun ==
    /\ jpc = "returned"
    /\ jrun = 1
    /\ jrun' = 2
    /\ first_out' = out_files
    /\ jpc' = "start"
    /\ results' = <<>>
    /\ judge_calls' = {}
    /\ handled' = None
    /\ UNCHANGED <<variant, summary_folder, input_docs, out_files, summary_files,
                   walk_vars, fn_vars, rerun_vars>>

\* the files of the summary folder, of the input folder, and an output of an
\* earlier run
SummaryNames == {"paper1_summary.txt", "ai_bias_summary.txt", "paper1_v2.txt"}

InputDocs == {{"paper1.pdf"}, {"paper1.pdf", "ai_bias.pdf"}}

EarlierOutputs == {<<>>, "paper1_judge.txt" :> TextFile("earlier")}

InitJudge ==
    /\ present = {}
    /\ tree = {}
    /\ pc = "idle"
    /\ ri = 1
    /\ judge = <<None, None>>
    /\ to_iter = {}
    /\ results_dir = ""
    /\ gen = <<None, None>>
    /\ to_glob = {}
    /\ rows = <<>>
    /\ score_keys = {}
    /\ origin = <<>>
    /\ out_csv = None
    /\ average_scores = None
    /\ stdout = <<>>
    /\ run = 1
    /\ first_rows = <<>>
    /\ first_csv = None
    /\ fn = "none"
    /\ arg = ""
    /\ res = None
    /\ variant \in {"anthropic", "openai", "llama3"}
    /\ summary_folder \in SUBSET SummaryNames
    /\ input_docs \in InputDocs
    /\ out_files \in EarlierOutputs
    /\ jpc = "start"
    /\ jrun = 1
    /\ summary_files = {}
    /\ results = <<>>
    /\ judge_calls = {}
    /\ handled = None
    /\ first_out = <<>>

NextJudge ==
    \/ JudgeBegin
    \/ JudgeOne
    \/ JudgeRerun

SpecJudge == InitJudge /\ [][NextJudge]_vars

(***************************************************************************)
(* general_utils.py: summarize_pdfs_by_index (lines 170-328)               *)
(***************************************************************************)
\* what one call did: the exception it raised ("none" when it returned), the
\* files uploaded, the summaries dict returned and the files written under
\* output_folder
NothingDone(raised) ==
    [raised |-> raised, uploaded |-> <<>>, summaries |-> <<>>, written |-> <<>>]

\* the text the provider returns for a file
SummaryOf(pdf_name) == "summary of " \o pdf_name

\* xs[start:end] for 0 <= start, end an int or None
Slice(xs, start, end) ==
    LET stop == IF end = None THEN Len(xs) ELSE Min({end[1], Len(xs)})
    IN  IF stop <= start THEN <<>> ELSE SubSeq(xs, start + 1, stop)

\* lines 317-323: the name of the summary file of a PDF
SummaryFileName(pdf_name) == Replace(pdf_name, ".pdf", "_summary.txt")

\* lines 283-328: the loop over the selected files, from the left.  A file
\* whose provider call raises gets an "Error: ..." entry and no file.
RECURSIVE ProcessSelected(_, _, _)
ProcessSelected(selected, a, done) ==
    IF selected = <<>> THEN done
    ELSE LET pdf_name == Head(selected)
             after ==
                 IF pdf_name \in a.fails
                 THEN [done EXCEPT !.summaries = (pdf_name :> "Error: api") @@ @]
                 ELSE [done EXCEPT
                         !.uploaded = IF a.provider = "ollama" THEN @
                                      ELSE Append(@, pdf_name),
                         !.summaries = (pdf_name :> SummaryOf(pdf_name)) @@ @,
                         !.written = IF a.output_folder = None THEN @
                                     ELSE (SummaryFileName(pdf_name) :>
                                               SummaryOf(pdf_name)) @@ @]
         IN  ProcessSelected(Tail(selected), a, after)

\* lines 221-328, on the arguments a: folder_exists and pdfs stand for the
\* folder, fails for the files on which the provider raises
summarize_pdfs_by_index(a) ==
    LET pdf_files == Sorted(a.pdfs)
    IN  IF ~a.folder_exists THEN NothingDone("FileNotFoundError")
        ELSE IF a.provider = "google" THEN NothingDone("NotImplementedError")
        ELSE IF a.provider \notin {"openai", "anthropic", "ollama"}
             THEN NothingDone("ValueError")
        ELSE IF Len(pdf_files) = 0 THEN NothingDone("none")
        ELSE IF a.start_index < 0 THEN NothingDone("ValueError")
        ELSE IF a.end_index # None /\ a.end_index[1] <= a.start_index
             THEN NothingDone("ValueError")
        ELSE IF a.start_index >= Len(pdf_files) THEN NothingDone("ValueError")
        ELSE ProcessSelected(Slice(pdf_files, a.start_index, a.end_index), a,
                             NothingDone("none"))

(***************************************************************************)
(* judge_llama3.py: the default output folder (lines 132-139)              *)
(***************************************************************************)
\* Path(p).name for a path without a trailing separator
PathName(p) == LET parts == Split(p, "/") IN parts[Len(parts)]

\* lines 133-135: the judge type, the last "_" piece of the prompt's stem
JudgeType(judge_prompt_path) ==
    LET pieces == Split(Stem(PathName(judge_prompt_path)), "_")
    IN  pieces[Len(pieces)]

\* lines 132-139 with output_folder None: <<root folder, subfolder>> of the
\* output, or the exception of split("_")[1] on a name without "_"
OutputFolder_llama3(a) ==
    LET summary_folder_name == PathName(a.summary_folder)
        judge_type == JudgeType(a.judge_prompt_path)
        pieces == Split(summary_folder_name, "_")
    IN  IF Len(pieces) < 2 THEN [raised |-> "IndexError"]
        ELSE [raised |-> "none",
              root |-> pieces[2] \o "_judge_results_" \o judge_type,
              sub |-> summary_folder_name]

(***************************************************************************)
(* The names of one paper through the pipeline: the summarizer             *)
(* (general_utils.py lines 318-320), the judges (judge_anthropic.py lines  *)
(* 171-176 and 213-214, judge_llama3.py lines 155 and 183-185) and the     *)
(* walker (generate_summaries_csv.py line 84).                             *)
(***************************************************************************)
NamesThroughPipeline(stem) ==
    LET summary == SummaryFileName(stem \o ".pdf")
        json_anthropic == JudgeJsonName("anthropic", summary)
        json_llama3 == JudgeJsonName("llama3", summary)
    IN  [summary |-> summary,
         pdf_anthropic |-> OriginalPdfName("anthropic", summary),
         json_anthropic |-> json_anthropic,
         paper_id_anthropic |-> paper_id_of(json_anthropic),
         pdf_llama3 |-> OriginalPdfName("llama3", summary),
         json_llama3 |-> json_llama3,
         paper_id_llama3 |-> paper_id_of(json_llama3)]

(***************************************************************************)
(* The helpers on their own: each applied once to any argument of a        *)
(* bounded set.                                                            *)
(***************************************************************************)
\* the names made of 1..n tokens of T joined with "_"
Names(T, n) == {Join(ts, "_") : ts \in UNION {[1..k -> T] : k \in 1..n}}

\* tokens of root names: the literal of the pattern is "_judge_results_"
JudgeTokens == {"gemini", "judge_results", "results", "basic", "", "v\n2"}

\* tokens of results-folder names
ResultsTokens == {"results", "openai", "long", "form", "xresults", ""}

\* keys and leaves of the mappings given to the flattener
Keys == {"", "a", "score"}

Leaves == {Num(1), Str("x")}

\* the sequences of at most n <<key, value>> pairs with distinct keys
Mappings(V, n) ==
    {kvs \in UNION {[1..k -> Keys \X V] : k \in 0..n} :
        \A i, j \in DOMAIN kvs : kvs[i][1] = kvs[j][1] => i = j}

\* nested mappings of one pair at most, two levels deep
Nested1 == {Dict(kvs) : kvs \in Mappings(Leaves, 1)}

Nested2 == {Dict(kvs) : kvs \in Mappings(Leaves \cup Nested1, 1)}

\* the arguments of flatten_json: three levels of nesting at most
FlattenArgs == Mappings(Leaves \cup Nested2, MaxWidth)

\* the PDFs of the input folder
PdfNames == {"paper1.pdf", "ai_bias.pdf", "b2.pdf"}

\* the arguments of summarize_pdfs_by_index: a folder of at most MaxEntries
\* PDFs, indices around the ends of the list
SummarizeArgs ==
    {a \in [folder_exists : BOOLEAN,
            provider : {"openai", "ollama", "google"},
            pdfs : {P \in SUBSET PdfNames : Cardinality(P) <= MaxEntries},
            start_index : -1..MaxEntries,
            end_index : {None} \cup {Some(n) : n \in -1..(MaxEntries + 1)},
            fails : SUBSET PdfNames,
            output_folder : {None, Some("results")}] :
        /\ a.fails \subseteq a.pdfs
        /\ ~a.folder_exists => a.pdfs = {}
        /\ a.provider = "google" => a.pdfs = {}}

\* the arguments of judge_llama3.judge_all_summaries that name folders
OutputFolderArgs ==
    [model : {"llama3", "mistral"},
     judge_prompt_path : {"llm_judge_prompts/judge_basic.txt",
                          "llm_judge_prompts/judge_full.txt",
                          "judge_v2_basic.txt"},
     summary_folder : {"results/results_anthropic_short",
                       "results/results_llama3_long_form",
                       "results_openai_short", "summaries"}]

\* tokens of the stems of PDF names
StemTokens == {"paper1", "ai", "judge", "bias"}

InitHelpers ==
    /\ present = {}
    /\ tree = {}
    /\ pc = "idle"
    /\ ri = 1
    /\ judge = <<None, None>>
    /\ to_iter = {}
    /\ results_dir = ""
    /\ gen = <<None, None>>
    /\ to_glob = {}
    /\ rows = <<>>
    /\ score_keys = {}
    /\ origin = <<>>
    /\ out_csv = None
    /\ average_scores = None
    /\ stdout = <<>>
    /\ run = 1
    /\ first_rows = <<>>
    /\ first_csv = None
    /\ JudgeIdle
    /\ res = None
    /\ \/ fn = "parse_judge_folder" /\ arg \in Names(JudgeTokens, MaxTokens)
       \/ fn = "parse_results_folder" /\ arg \in Names(ResultsTokens, MaxTokens)
       \/ fn = "flatten_json" /\ arg \in FlattenArgs
       \/ fn = "summarize_pdfs_by_index" /\ arg \in SummarizeArgs
       \/ fn = "judge_llama3.output_folder" /\ arg \in OutputFolderArgs
       \/ fn = "names_through_pipeline" /\ arg \in Names(StemTokens, MaxTokens)

CallParseJudgeFolder ==
    /\ fn = "parse_judge_folder"
    /\ res = None
    /\ res' = Some(parse_judge_folder(arg))
    /\ UNCHANGED <<walk_vars, fn, arg, rerun_vars, judge_vars>>

CallParseResultsFolder ==
    /\ fn = "parse_results_folder"
    /\ res = None
    /\ res' = Some(parse_results_folder(arg))
    /\ UNCHANGED <<walk_vars, fn, arg, rerun_vars, judge_vars>>

CallFlattenJson ==
    /\ fn = "flatten_json"
    /\ res = None
    /\ res' = Some(flatten_json(arg, "", "."))
    /\ UNCHANGED <<walk_vars, fn, arg, rerun_vars, judge_vars>>

CallSummarizePdfsByIndex ==
    /\ fn = "summarize_pdfs_by_index"
    /\ res = None
    /\ res' = Some(summarize_pdfs_by_index(arg))
    /\ UNCHANGED <<walk_vars, fn, arg, rerun_vars, judge_vars>>

CallOutputFolder_llama3 ==
    /\ fn = "judge_llama3.output_folder"
    /\ res = None
    /\ res' = Some(OutputFolder_llama3(arg))
    /\ UNCHANGED <<walk_vars, fn, arg, rerun_vars, judge_vars>>

CallNamesThroughPipeline ==
    /\ fn = "names_through_pipeline"
    /\ res = None
    /\ res' = Some(NamesThroughPipeline(arg))
    /\ UNCHANGED <<walk_vars, fn, arg, rerun_vars, judge_vars>>

NextHelpers ==
    \/ CallParseJudgeFolder
    \/ CallParseResultsFolder
    \/ CallFlattenJson
    \/ CallSummarizePdfsByIndex
    \/ CallOutputFolder_llama3
    \/ CallNamesThroughPipeline

SpecHelpers == InitHelpers /\ [][NextHelpers]_vars

(***************************************************************************)
(* Properties.                                                             *)
(***************************************************************************)
\* the walker has ended and OUTPUT_CSV is on disk
Emitted == out_csv # None

\* calculate_average_scores.py has run to its end or to an exception
AggregatorEnded == pc \in {"key_error", "type_error", "averaged"}

\* the value of a top-level key of a parsed document, None when absent
TopLevel(data, key) ==
    IF data.t # "dict" \/ ~(\E i \in DOMAIN data.v : data.v[i][1] = key) THEN None
    ELSE Some(data.v[CHOOSE i \in DOMAIN data.v : data.v[i][1] = key][2])

\* the metadata of a row, in the order of META_COLS
MetaOf(row) == [i \in 1..Len(META_COLS) |-> row[META_COLS[i]].v]

\* the group of a row: its metadata without the paper
GroupOf(row) == Tail(MetaOf(row))

\* the score columns of a header: what follows the metadata columns
ScoreColumns(header) == Range(header) \ Range(META_COLS)

\* the field of data line i of the emitted table in column c, None when the
\* table has no such column
Field(i, c) ==
    IF c \in Range(out_csv[1].header)
    THEN Some(Cell(out_csv[1], out_csv[1].lines[i], c))
    ELSE None

C1_Tree ==
    {[root |-> 1, dir |-> "results_anthropic_short", is_dir |-> TRUE,
      file |-> "paper1_judge.json", data |-> Doc42]}

\* C1: walking the one-file corpus of the end-to-end scenario yields exactly
\* one row, which carries the five metadata values, hallucination.score = 8
\* and total_score = 42, and total_score reaches the emitted table.
C1_ScenarioRowHasTotalScore ==
    (present = {1} /\ tree = C1_Tree /\ Emitted) =>
        /\ Len(rows) = 1
        /\ MetaOf(rows[1]) = <<"paper1", "gemini", "basic", "anthropic", "short">>
        /\ "hallucination.score" \in DOMAIN rows[1]
        /\ rows[1]["hallucination.score"] = Num(8)
        /\ "total_score" \in DOMAIN rows[1]
        /\ rows[1]["total_score"] = Num(42)
        /\ Field(1, "total_score") = Some("42")

\* two judgement files of one group whose top-level total_score are 40 and 50
C2_Scenario ==
    /\ Cardinality(tree) = 2
    /\ Len(rows) = 2
    /\ GroupOf(rows[1]) = GroupOf(rows[2])
    /\ {TopLevel(origin[1].data, "total_score"),
        TopLevel(origin[2].data, "total_score")} = {Some(Num(40)), Some(Num(50))}

\* C2: for two files of one group with total_score 40 and 50, the walker,
\* the emitter and then the aggregator yield exactly one group line, whose
\* total_score is 45.0.
C2_ScenarioMeanIs45 ==
    (C2_Scenario /\ AggregatorEnded) =>
        /\ pc = "averaged"
        /\ average_scores # None
        /\ Len(average_scores[1].lines) = 1
        /\ average_scores[1].lines[1].mean["total_score"] = Some(4500)

\* the files the walk parses: the *.json files of the directories that
\* decode, in the roots that exist and decode
ParsedFiles ==
    {e \in tree :
        /\ e.is_dir
        /\ e.root \in present
        /\ parse_judge_folder(ROOTS[e.root])[1] # None
        /\ parse_results_folder(e.dir)[1] # None
        /\ EndsWith(e.file, ".json")
        /\ e.data.t = "dict"}

\* the flattened keys of a parsed file that end in ".score"
DotScoreKeys(e) ==
    {k \in DOMAIN flatten_json(e.data.v, "", ".") : EndsWith(k, ".score")}

\* C3: the score columns of the header of the emitted table are exactly the
\* union, over the parsed files, of the flattened keys ending in ".score".
C3_ScoreColumnsAreUnion ==
    Emitted =>
        ScoreColumns(out_csv[1].header) = UNION {DotScoreKeys(e) : e \in ParsedFiles}

\* C3 witness: a table emitted from two files with different score keys
C3_Witness ==
    /\ Emitted
    /\ \E e1, e2 \in ParsedFiles :
        /\ DotScoreKeys(e1) \ DotScoreKeys(e2) # {}
        /\ DotScoreKeys(e2) \ DotScoreKeys(e1) # {}
    /\ Cardinality(ScoreColumns(out_csv[1].header)) = 2

\* the score columns of the aggregated table: what follows the group columns
AverageScoreColumns ==
    SubSeq(average_scores[1].header, Len(group_columns) + 1,
           Len(average_scores[1].header))

\* C4: the aggregator runs to completion on every table the emitter writes,
\* and its score columns are the score columns of that table's header, sorted.
C4_AggregatorFollowsHeader ==
    AggregatorEnded =>
        /\ pc = "averaged"
        /\ average_scores # None
        /\ AverageScoreColumns = Sorted(ScoreColumns(out_csv[1].header))

\* the literal of the root-name pattern
JudgeLiteral == "_judge_results_"

\* the root name cut at offset i of an occurrence of the literal
CutAt(name, i) == <<Some(SubSeq(name, 1, i)), Some(Drop(name, i + Len(JudgeLiteral)))>>

\* C5 as stated: whenever the name is A + "_judge_results_" + B the result is
\* (A, B), and a name without the literal gives (None, None).
C5_EveryDecomposition ==
    (fn = "parse_judge_folder" /\ res # None) =>
        /\ \A i \in Occurrences(arg, JudgeLiteral) : res[1] = CutAt(arg, i)
        /\ ~Contains(arg, JudgeLiteral) => res[1] = <<None, None>>

\* C5 (amended): for a name without a line break that contains the literal,
\* the result is (A, B) with A the text before the LAST occurrence of the
\* literal and B the text after it; a name without the literal gives
\* (None, None).
C5_LastOccurrence ==
    (fn = "parse_judge_folder" /\ res # None) =>
        /\ (Contains(arg, JudgeLiteral) /\ ~Contains(arg, NL)) =>
              res[1] = CutAt(arg, Max(Occurrences(arg, JudgeLiteral)))
        /\ ~Contains(arg, JudgeLiteral) => res[1] = <<None, None>>

\* C5 witness: a decoded name in which the literal occurs more than once
C5_Witness ==
    /\ fn = "parse_judge_folder"
    /\ res # None
    /\ ~Contains(arg, NL)
    /\ Cardinality(Occurrences(arg, JudgeLiteral)) >= 2
    /\ res[1][1] # None

\* C6: for results_<G>_<S1>_..._<Sk>, k >= 1, the result is (G, S1_..._Sk):
\* only the leading token is stripped; the result is (None, None) when fewer
\* than two tokens remain after the leading "results" token is stripped.
C6_OnlyLeadingTokenStripped ==
    (fn = "parse_results_folder" /\ res # None) =>
        LET toks == Split(arg, "_")
            remain == IF toks[1] = "results" THEN Tail(toks) ELSE toks
        IN  /\ (toks[1] = "results" /\ Len(remain) >= 2) =>
                  res[1] = <<Some(remain[1]), Some(Join(Tail(remain), "_"))>>
            /\ Len(remain) < 2 => res[1] = <<None, None>>

\* a name of the pattern results_<generator_model>_<summary_style>
MatchesResultsPattern(name) ==
    LET toks == Split(name, "_") IN toks[1] = "results" /\ Len(toks) >= 3

\* C7: no row comes from a file of a subdirectory whose name does not match
\* results_<generator_model>_<summary_style>.
C7_NoRowFromUnmatchedDir ==
    \A i \in DOMAIN rows : MatchesResultsPattern(origin[i].dir)

\* the root-to-leaf paths of a mapping: <<keys from the root, leaf>>
RECURSIVE LeafPaths(_)
LeafPaths(d) ==
    UNION {IF d[i][2].t = "dict"
           THEN {<< <<d[i][1]>> \o p[1], p[2] >> : p \in LeafPaths(d[i][2].v)}
           ELSE {<< <<d[i][1]>>, d[i][2] >>} : i \in DOMAIN d}

\* C8: the keys of the result are exactly the dot-joined root-to-leaf paths,
\* each mapped to its leaf unchanged.
C8_KeysAreDotJoinedPaths ==
    (fn = "flatten_json" /\ res # None) =>
        /\ DOMAIN res[1] = {Join(p[1], ".") : p \in LeafPaths(arg)}
        /\ \A p \in LeafPaths(arg) : res[1][Join(p[1], ".")] = p[2]

\* a name with one trailing marker removed, the rest untouched
StripTrailing(x, marker) ==
    IF EndsWith(x, marker) THEN SubSeq(x, 1, Len(x) - Len(marker)) ELSE x

\* C9: the paper_id of a row is the stem of its file with the trailing
\* "_judge" stripped and every other character unchanged.
C9_PaperIdIsStemWithoutTrailingMarker ==
    \A i \in DOMAIN rows :
        rows[i]["paper_id"].v = StripTrailing(Stem(origin[i].file), "_judge")

\* C10: no two rows share (paper_id, judge_model, judge_prompt,
\* generator_model, summary_style).
C10_OneRowPerCombination ==
    \A i, j \in DOMAIN rows : MetaOf(rows[i]) = MetaOf(rows[j]) => i = j

\* the walk over ROOTS has come to its end (the write may have followed)
WalkEnded ==
    \/ pc = "walk_roots" /\ ri > Len(ROOTS)
    \/ pc \in {"no_rows", "written", "key_error", "type_error", "averaged"}

\* the *.json files directly inside a subdirectory that decodes, of a root
\* that exists and decodes
JsonFilesToWalk ==
    {e \in tree :
        /\ e.is_dir
        /\ e.root \in present
        /\ parse_judge_folder(ROOTS[e.root])[1] # None
        /\ parse_results_folder(e.dir)[1] # None
        /\ EndsWith(e.file, ".json")}

\* the row the walk is to build from file e
RowOf(e) ==
    BuildRow(e.file, parse_judge_folder(ROOTS[e.root]),
             parse_results_folder(e.dir), flatten_json(e.data.v, "", "."))

\* rows and files correspond one to one
C11_RowsMatchFiles ==
    /\ Len(rows) = Len(origin)
    /\ \A i \in DOMAIN rows : origin[i] \in JsonFilesToWalk /\ rows[i] = RowOf(origin[i])
    /\ \A i, j \in DOMAIN origin : origin[i] = origin[j] => i = j
    /\ WalkEnded => Range(origin) = JsonFilesToWalk

\* C11: the walk creates exactly one row for each *.json file directly inside
\* a decodable subdirectory of an existing, decodable root and no row from
\* anything else; a row, once appended, is never modified or removed.
C11_OneRowPerFileAndRowsKept ==
    /\ [](C11_RowsMatchFiles)
    /\ [][Len(rows') >= Len(rows) /\ SubSeq(rows', 1, Len(rows)) = rows]_vars

\* C11 witness: a finished walk that built a row beside an entry that gives
\* none
C11_Witness ==
    /\ WalkEnded
    /\ Len(rows) = 1
    /\ tree \ JsonFilesToWalk # {}

\* C12: in every row built by the walk the five metadata fields are present
\* and hold a string (never None), whatever root, subdirectory and file the
\* row comes from.
C12_MetadataPresentAndNonNull ==
    \A i \in DOMAIN rows :
        \A c \in Range(META_COLS) :
            c \in DOMAIN rows[i] /\ rows[i][c].t = "str"

\* C12 witness: a row built under a subdirectory whose style has two tokens
C12_Witness ==
    \E i \in DOMAIN rows :
        /\ rows[i]["generator_model"] = Str("openai")
        /\ rows[i]["summary_style"] = Str("long_form")
        /\ rows[i]["judge_model"] = Str("gemini")

\* C13: every score field stored in a row holds a number; a leaf that is
\* text, a list or a boolean is never stored as a score field.
C13_ScoreFieldsAreNumeric ==
    \A i \in DOMAIN rows :
        \A k \in DOMAIN rows[i] \ Range(META_COLS) : rows[i][k].t = "int"

\* C14: a score column that the file of a row does not have is absent from
\* the row and is an empty field of its line in the emitted table, while a
\* score of 0 is the field "0": the two are told apart in the output.
C14_AbsentScoreIsEmptyField ==
    Emitted =>
        \A i \in DOMAIN rows :
            \A c \in ScoreColumns(out_csv[1].header) :
                /\ c \notin DotScoreKeys(origin[i]) =>
                       c \notin DOMAIN rows[i] /\ Field(i, c) = Some("")
                /\ (c \in DOMAIN rows[i] /\ rows[i][c] = Num(0)) =>
                       Field(i, c) = Some("0")

\* C14 witness: an emitted table with a column in which one line has the
\* score 0 and another line has no score
C14_Witness ==
    /\ Emitted
    /\ \E i, j \in DOMAIN rows :
        \E c \in ScoreColumns(out_csv[1].header) :
            /\ c \notin DOMAIN rows[i] /\ Field(i, c) = Some("")
            /\ c \in DOMAIN rows[j] /\ rows[j][c] = Num(0) /\ Field(j, c) = Some("0")

\* C15: the header of the emitted table is the five metadata columns in
\* their declared order, followed by the score columns of the parsed files in
\* strictly ascending order: it depends on the tree alone, not on the order
\* in which subdirectories and files were enumerated.
C15_HeaderOrderIsFixed ==
    Emitted =>
        LET header == out_csv[1].header
        IN  /\ Len(header) >= Len(META_COLS)
            /\ SubSeq(header, 1, Len(META_COLS)) = META_COLS
            /\ \A i, j \in (Len(META_COLS) + 1)..Len(header) :
                   i < j => StrLess(header[i], header[j])
            /\ {header[i] : i \in (Len(META_COLS) + 1)..Len(header)} =
                   UNION {DotScoreKeys(e) : e \in ParsedFiles}

\* C15 witness: a table emitted after the file with the greater score key was
\* enumerated first
C15_Witness ==
    /\ Emitted
    /\ Len(out_csv[1].header) = Len(META_COLS) + 2
    /\ Len(origin) = 2
    /\ \E k1 \in DotScoreKeys(origin[1]) :
           \A k2 \in DotScoreKeys(origin[2]) : StrLess(k2, k1)

\* the group tuples of the data lines of the emitted table
EmittedGroups ==
    {GroupKey(out_csv[1], out_csv[1].lines[i]) : i \in DOMAIN out_csv[1].lines}

\* the lines of the aggregated table
AverageLines == average_scores[1].lines

C17_OneLinePerGroup ==
    AggregatorEnded =>
        /\ average_scores # None
        /\ \A g \in EmittedGroups :
               Cardinality({n \in DOMAIN AverageLines : AverageLines[n].key = g}) = 1
        /\ \A n \in DOMAIN AverageLines : AverageLines[n].key \in EmittedGroups

HasUnparsableFile == \E e \in JsonFilesToWalk : e.data.t # "dict"

\* C19: when a judgement file of the walk does not parse, the walk never comes
\* to its end and no table is ever written, however many rows were built
\* before the error; a table is written only after every file was visited.
C19_UnparsableFileAborts ==
    /\ HasUnparsableFile => out_csv = None /\ ~WalkEnded
    /\ pc = "json_error" => HasUnparsableFile
    /\ Emitted => WalkEnded /\ Range(origin) = JsonFilesToWalk

\* C19 witness: the run has stopped on a file that does not parse, after a
\* row was built from another file
C19_Witness ==
    /\ pc = "json_error"
    /\ Len(rows) >= 1
    /\ out_csv = None

\* C20: a walk that ends without a row (no root exists or decodes, or no
\* judgement file is found) ends in the no-data error and writes no table; a
\* written table has at least one data line.
C20_NoRowsIsAnError ==
    /\ (WalkEnded /\ JsonFilesToWalk = {}) =>
           rows = <<>> /\ out_csv = None /\ pc \in {"walk_roots", "no_rows"}
    /\ pc = "no_rows" => rows = <<>> /\ JsonFilesToWalk = {} /\ out_csv = None
    /\ Emitted => Len(out_csv[1].lines) >= 1

\* C20 witness: the no-data error on a tree that has entries, none of them a
\* judgement file of a decodable subdirectory
C20_Witness ==
    /\ pc = "no_rows"
    /\ present # {}
    /\ tree # {}
    /\ out_csv = None

\* the write has been attempted: the script has ended, with a table or with
\* the no-data error
WriterEnded == pc \in {"no_rows", "written", "key_error", "type_error", "averaged"}

\* the outer loop stands at a root that does not exist
AtMissingRoot == pc = "walk_roots" /\ ri <= Len(ROOTS) /\ ri \notin present

\* C21: a root of the list that does not exist is skipped, not fatal: the
\* step at such a root only moves the walk on to the next root, and once the
\* script has ended every judgement file of the other roots has its line in
\* the written table.
C21_MissingRootIsSkipped ==
    /\ [][AtMissingRoot =>
            /\ pc' = "walk_roots"
            /\ ri' = ri + 1
            /\ rows' = rows
            /\ out_csv' = out_csv]_vars
    /\ []((WriterEnded /\ JsonFilesToWalk # {}) =>
            /\ Emitted
            /\ Len(out_csv[1].lines) = Cardinality(JsonFilesToWalk))

\* C21 witness: the first root is missing and the table holds the row of a
\* file of the second
C21_Witness ==
    /\ present = {2}
    /\ Emitted
    /\ Len(out_csv[1].lines) = 1
    /\ origin[1].root = 2

\* C22 as stated: a run whose list has a missing root writes no output.
C22_MissingRootAborts ==
    RootIds \ present # {} => out_csv = None

\* C22 amended: a missing root is reported when the walk reaches it (the
\* printed lines name exactly the missing roots the walk has passed, in the
\* order of the list), and the run goes on: when it has found rows, it
\* writes them.
C22_MissingRootReportedRunGoesOn ==
    /\ \A r \in RootIds \ present :
           r < ri <=> \E n \in DOMAIN stdout : stdout[n] = SkippingMessage(ROOTS[r])
    /\ \A n1, n2 \in DOMAIN stdout :
           \A r1, r2 \in RootIds :
               (/\ stdout[n1] = SkippingMessage(ROOTS[r1])
                /\ stdout[n2] = SkippingMessage(ROOTS[r2])
                /\ n1 < n2) => r1 < r2
    /\ (RootIds \ present # {} /\ WriterEnded /\ rows # <<>>) => Emitted

\* C22 witness: the second root is missing, it was reported after the rows
\* of the first were built, and the table was written all the same
C22_Witness ==
    /\ present = {1}
    /\ Emitted
    /\ Len(stdout) = 2
    /\ stdout[1] = SkippingMessage(ROOTS[2])
    /\ stdout[2] = WroteMessage(Len(rows))

\* a list of rows as a multiset: each row with the number of its occurrences
RowBag(rs) == [r \in Range(rs) |-> Cardinality({i \in DOMAIN rs : rs[i] = r})]

\* C23: a second walk over the unchanged tree ends with the same multiset of
\* rows as the first, whatever the two orders of enumeration.
C23_SameRowsOnRerun ==
    (run = 2 /\ WalkEnded) => RowBag(rows) = RowBag(first_rows)

\* C23 witness: two walks that built the same two rows in different orders
C23_Witness ==
    /\ run = 2
    /\ WalkEnded
    /\ Len(rows) = 2
    /\ rows # first_rows

\* C24: the table written by a second run over the unchanged tree is the
\* table of the first run: same header, same data lines, same order.
C24_SameTableOnRerun ==
    (run = 2 /\ pc = "written") => out_csv = first_csv

\* C25: during the walk the set of score keys only grows, and it holds every
\* score key stored in a row built so far (so, at the end of the walk, every
\* score key of every row).
C25_ScoreKeysOnlyGrow ==
    /\ [][score_keys \subseteq score_keys']_vars
    /\ [](\A i \in DOMAIN rows :
             DOMAIN rows[i] \ Range(META_COLS) \subseteq score_keys)

\* C25 witness: the walk has ended with a key of the first row that the last
\* row does not have still in the set
C25_Witness ==
    /\ WalkEnded
    /\ Len(rows) = 2
    /\ \E k \in score_keys : k \in DOMAIN rows[1] /\ k \notin DOMAIN rows[2]

\* summarize_pdfs_by_index has been called on an existing folder with a
\* supported provider
Summarized ==
    /\ fn = "summarize_pdfs_by_index"
    /\ res # None
    /\ arg.folder_exists
    /\ arg.provider \in {"openai", "anthropic", "ollama"}

\* the indices of the call are invalid: a negative start, or an end that is
\* not greater than the start
InvalidIndices ==
    \/ arg.start_index < 0
    \/ arg.end_index # None /\ arg.end_index[1] <= arg.start_index

\* C26: with invalid indices the call raises ValueError and has uploaded,
\* summarized and written nothing, however many PDFs the folder holds (none
\* included); with valid indices the files processed are those at the
\* positions [start_index, end_index) of the sorted list of PDFs.
C26_InvalidIndicesRaise ==
    Summarized =>
        /\ InvalidIndices =>
               res[1] = NothingDone("ValueError")
        /\ (~InvalidIndices /\ res[1].raised = "none") =>
               DOMAIN res[1].summaries =
                   Range(Slice(Sorted(arg.pdfs), arg.start_index, arg.end_index))

\* C27: the root folder judge_llama3 chooses when output_folder is None
\* decodes, with parse_judge_folder, to the judging model and the judge type.
C27_OutputRootNamesJudgingModel ==
    (fn = "judge_llama3.output_folder" /\ res # None /\ res[1].raised = "none") =>
        /\ parse_judge_folder(res[1].root) =
               <<Some(arg.model), Some(JudgeType(arg.judge_prompt_path))>>
        /\ res[1].sub = PathName(arg.summary_folder)

\* the summary has an output file, .json or .txt, among the files F
HasOutput(summary_filename, F) ==
    \/ JudgeJsonName(variant, summary_filename) \in DOMAIN F
    \/ JudgeTxtName(variant, summary_filename) \in DOMAIN F

\* C28: in judge_anthropic a step never sends to the judge a summary whose
\* output file exists and never changes an existing output file; so in a
\* second run, when every summary had its output file after the first, no
\* summary is sent to the judge and the output folder stays as it was.
C28_ProcessedSummariesAreSkipped ==
    /\ [][variant = "anthropic" =>
            /\ \A f \in judge_calls' \ judge_calls : ~HasOutput(f, out_files)
            /\ \A n \in DOMAIN out_files :
                   n \in DOMAIN out_files' /\ out_files'[n] = out_files[n]]_vars
    /\ []((/\ variant = "anthropic"
           /\ jrun = 2
           /\ \A f \in GlobSummaries(variant, summary_folder) : HasOutput(f, first_out))
          => judge_calls = {} /\ out_files = first_out)

\* C28 witness: a second run of judge_anthropic has returned after skipping
\* two summaries, one with a .json and one with a .txt output of the first
C28_Witness ==
    /\ variant = "anthropic"
    /\ jrun = 2
    /\ jpc = "returned"
    /\ handled # None
    /\ handled[1].outcome = "skipped"
    /\ judge_calls = {}
    /\ \E f, g \in GlobSummaries(variant, summary_folder) :
        /\ JudgeJsonName(variant, f) \in DOMAIN first_out
        /\ JudgeTxtName(variant, g) \in DOMAIN first_out
        /\ JudgeTxtName(variant, g) \notin UNION {DOMAIN e : e \in EarlierOutputs}
    /\ out_files = first_out

\* C29: a loop turn writes at most one file: <stem>_judge.json when the
\* response, cut to its braces, parses as JSON, <stem>_judge.txt holding the
\* raw response when it does not; a turn on a summary whose PDF is missing
\* or whose judging raises writes no file and leaves an error entry; the
\* function returns only when every summary file was taken.
C29_OneOutputFilePerSummary ==
    /\ jpc = "returned" => summary_files = {}
    /\ handled # None =>
        LET h == handled[1]
            stem == OutputStem(variant, h.summary)
            pdf == OriginalPdfName(variant, h.summary)
        IN  /\ Cardinality(DOMAIN h.wrote) <= 1
            /\ h.outcome = "skipped" => h.wrote = <<>>
            /\ (h.outcome = "pdf_missing" \/ (h.outcome # "skipped" /\ h.response = None)) =>
                   /\ h.wrote = <<>>
                   /\ pdf \in DOMAIN results /\ results[pdf] = ErrorEntry
            /\ (h.outcome \notin {"skipped", "pdf_missing"} /\ h.response # None) =>
                   IF JsonLoads(CutToBraces(h.response[1])) # None
                   THEN /\ DOMAIN h.wrote = {stem \o "_judge.json"}
                        /\ h.wrote[stem \o "_judge.json"].kind = "json"
                   ELSE h.wrote = (stem \o "_judge.txt" :> TextFile(h.response[1]))

\* C30: for the PDF <stem>.pdf the summarizer writes <stem>_summary.txt, the
\* judge derives <stem>.pdf from it and writes <stem>_judge.json, and the
\* walker gives the row the paper_id <stem>.
C30_NamesRoundTrip ==
    (fn = "names_through_pipeline" /\ res # None) =>
        LET n == res[1]
        IN  /\ n.summary = arg \o "_summary.txt"
            /\ n.pdf_anthropic = arg \o ".pdf"
            /\ n.pdf_llama3 = arg \o ".pdf"
            /\ n.json_anthropic = arg \o "_judge.json"
            /\ n.json_llama3 = arg \o "_judge.json"
            /\ n.paper_id_anthropic = arg
            /\ n.paper_id_llama3 = arg

=============================================================================
